---- MODULE Spec2Model ----
(***************************************************************************)
(* A model of the RAG agent backend:                                       *)
(*   - chatWithAgent   (src/src/controllers/agentController.js)            *)
(*   - retrieveKnowledge (src/src/services/ragService.js)                  *)
(*   - chunkText, main (src/src/scripts/ingest.js)                         *)
(*                                                                         *)
(* JavaScript strings are modelled as sequences of pieces: a text handed   *)
(* to chunkText is a sequence of single characters, every other string is  *)
(* a sequence of tokens.  The empty string is << >>.  The JavaScript value *)
(* `undefined` is the distinguished value `undefined` below.               *)
(***************************************************************************)
EXTENDS Integers, Sequences, FiniteSets, TLC

VARIABLES
    \* ---- one chat request (agentController.js) ----
    body,           \* req.body as left by the JSON body parser
    indexResp,      \* what the vector index answers to a query during this request
    sdkShape,       \* which field of a step carries a tool result
    pc,             \* position of the handler
    steps,          \* result.steps: the transcript of the primary generateText call
    stepText,       \* text of the round in progress
    curParts,       \* tool-result parts of the round in progress
    pending,        \* tool calls of the round in progress not yet executed
    resultText,     \* result.text
    rawToolOutput,  \* rawToolOutput
    finalAnswer,    \* finalAnswer
    fallbackPrompt, \* prompt of the second generateText call
    summaryText,    \* summaryResult.text
    responses,      \* what was sent through res
    calls,          \* how often each collaborator was called
    lastTool,       \* the last tool invocation: its args, its query, the index answer
    threw,          \* which call threw ("none" when none did)
    \* ---- one call of chunkText (ingest.js) ----
    text,           \* text
    chunkSize,      \* chunkSize
    overlap,        \* overlap
    startIndex,     \* startIndex
    chunks,         \* chunks
    cpc,            \* "loop", "done", or "diverged" once startIndex repeats
    starts,         \* startIndex at each iteration so far
    cuts,           \* endIndex at each iteration so far
    guardTaken,     \* whether the branch of lines 42-44 was taken, per iteration
    returned,       \* the value returned
    \* ---- runs of the ingestion script (ingest.js main) ----
    docs,           \* the docs directory: whether it exists, and its files
    index,          \* the records of namespace 'my-company-docs', by id
    mpc,            \* position of main
    allChunks,      \* allChunks
    embeddings,     \* embeddings
    log,            \* what the last run wrote through console.error
    outcome,        \* how the last run ended
    upsertCalls,    \* index.upsert calls issued so far
    runs,           \* runs started so far
    atStart,        \* the index and upsertCalls when the run under way started
    hist            \* the last successful run: its corpus, the index before it

chatVars == <<body, indexResp, sdkShape, pc, steps, stepText, curParts, pending,
              resultText, rawToolOutput, finalAnswer, fallbackPrompt, summaryText,
              responses, calls, lastTool, threw>>

chunkVars == <<text, chunkSize, overlap, startIndex, chunks, cpc, starts, cuts,
               guardTaken, returned>>

ingestVars == <<docs, index, mpc, allChunks, embeddings, log, outcome, upsertCalls,
                runs, atStart, hist>>

vars == <<chatVars, chunkVars, ingestVars>>

----------------------------------------------------------------------------
\* JavaScript values

undefined == <<"#undefined">>

\* !v for a string-or-undefined value
Truthy(v) == v # undefined /\ v # << >>

\* a || b
Or(a, b) == IF Truthy(a) THEN a ELSE b

\* String(v), as applied by `+` and by template literals
JsString(v) == IF v = undefined THEN <<"undefined">> ELSE v

\* Array.prototype.join
RECURSIVE Join(_, _)
Join(parts, sep) ==
    IF parts = << >> THEN << >>
    ELSE IF Len(parts) = 1 THEN JsString(parts[1])
    ELSE JsString(parts[1]) \o sep \o Join(Tail(parts), sep)


----------------------------------------------------------------------------
\* retrieveKnowledge (ragService.js)

topK == 2

Sentinel == <<"No relevant information found in the knowledge base.">>

\* Block without the `|| 'unknown document'` default
BlockNoDefault(match) ==
    <<"[source: ">> \o JsString(match.metadata.source)
        \o <<"]\n">> \o JsString(match.metadata.text)

\* one match's block: `[source: ${sourceName}]\n${match.metadata.text}`
Block(match) ==
    <<"[source: ">> \o JsString(Or(match.metadata.source, <<"unknown document">>))
        \o <<"]\n">> \o JsString(match.metadata.text)

\* FormatContext without the `matches.length === 0` test
FormatContextNoEmptyCheck(resp) ==
    IF ~resp.hasMatches
    THEN Sentinel
    ELSE Join([i \in 1..Len(resp.matches) |-> Block(resp.matches[i])],
              <<"\n\n---\n\n">>)

\* the string retrieveKnowledge returns for a query response
FormatContext(resp) ==
    IF ~resp.hasMatches \/ Len(resp.matches) = 0
    THEN Sentinel
    ELSE Join([i \in 1..Len(resp.matches) |-> Block(resp.matches[i])],
              <<"\n\n---\n\n">>)

\* the records the index may hold for the namespace (metadata only)
MatchPool ==
    { [metadata |-> [source |-> <<"a.md">>, text |-> <<"t1">>]],
      [metadata |-> [source |-> undefined,  text |-> <<"t2">>]] }

\* the rankings of at most n distinct records of S
Rankings(S, n) ==
    { q \in UNION { [1..k -> S] : k \in 0..n } :
        \A i, j \in 1..Len(q) : i # j => q[i] # q[j] }

\* the query responses of the index: `matches` absent, or at most topK matches
QueryResponses ==
    { [hasMatches |-> FALSE, matches |-> << >>] }
        \cup { [hasMatches |-> TRUE, matches |-> m] : m \in Rankings(MatchPool, topK) }

----------------------------------------------------------------------------
\* chatWithAgent (agentController.js)

maxSteps == 5

\* most tool calls the model issues in one round
MaxCallsPerStep == 2

Prompt == <<"p">>

\* req.body: not parsed, parsed without a prompt, with an empty or a real prompt
Bodies ==
    { [parsed |-> FALSE, prompt |-> undefined],
      [parsed |-> TRUE,  prompt |-> undefined],
      [parsed |-> TRUE,  prompt |-> << >>],
      [parsed |-> TRUE,  prompt |-> Prompt] }

\* texts the language model may produce
ModelTexts == { << >>, <<"answer">> }
FallbackTexts == { << >>, <<"undefined">>, <<"summary">> }

\* the `query` argument the model may pass to searchCompanyDocs
QueryArgs == { undefined, << >>, <<"q">> }

Apology ==
    <<"Sorry, I found information in the documentation, but couldn't properly summarize it.">>

NoCalls == [primary |-> 0, rounds |-> 0, fallback |-> 0, retrieve |-> 0,
            embed |-> 0, query |-> 0]

NoTool == [args |-> undefined, searchQuery |-> undefined, outcome |-> "none",
           info |-> undefined]

Bump(c, field) == [c EXCEPT ![field] = @ + 1]

\* a map with no entry
Empty == [x \in {} |-> x]

\* the ingestion script is not run
IngestIdle ==
    /\ docs = [exists |-> FALSE, files |-> Empty]
    /\ index = Empty
    /\ mpc = "off"
    /\ allChunks = << >>
    /\ embeddings = << >>
    /\ log = << >>
    /\ outcome = "none"
    /\ upsertCalls = 0
    /\ runs = 0
    /\ atStart = [index |-> Empty, upsertCalls |-> 0]
    /\ hist = [okRuns |-> 0, docs |-> [exists |-> FALSE, files |-> Empty],
               before |-> Empty, repeated |-> FALSE]

\* no call of chunkText is under way
ChunkIdle ==
    /\ text = << >>
    /\ chunkSize = 0
    /\ overlap = 0
    /\ startIndex = 0
    /\ chunks = << >>
    /\ cpc = "idle"
    /\ starts = << >>
    /\ cuts = << >>
    /\ guardTaken = << >>
    /\ returned = << >>

ChatInit ==
    /\ body \in Bodies
    /\ indexResp \in QueryResponses
    /\ sdkShape \in {"result", "output", "nocontent"}
    /\ pc = "start"
    /\ steps = << >>
    /\ stepText = << >>
    /\ curParts = << >>
    /\ pending = 0
    /\ resultText = << >>
    /\ rawToolOutput = << >>
    /\ finalAnswer = undefined
    /\ fallbackPrompt = undefined
    /\ summaryText = undefined
    /\ responses = << >>
    /\ calls = NoCalls
    /\ lastTool = NoTool
    /\ threw = "none"
    /\ ChunkIdle
    /\ IngestIdle

\* line 8: destructuring req.body when the body parser left it undefined
BodyTypeError ==
    /\ pc = "start"
    /\ ~body.parsed
    /\ threw' = "destructure"
    /\ pc' = "catch"
    /\ UNCHANGED <<body, indexResp, sdkShape, steps, stepText, curParts, pending,
                   resultText, rawToolOutput, finalAnswer, fallbackPrompt, summaryText,
                   responses, calls, lastTool>>
    /\ UNCHANGED <<chunkVars, ingestVars>>

\* lines 9-11
Validate400 ==
    /\ pc = "start"
    /\ body.parsed
    /\ ~Truthy(body.prompt)
    /\ responses' = Append(responses, [status |-> 400, error |-> <<"Prompt is required">>])
    /\ pc' = "done"
    /\ UNCHANGED <<body, indexResp, sdkShape, steps, stepText, curParts, pending,
                   resultText, rawToolOutput, finalAnswer, fallbackPrompt, summaryText,
                   calls, lastTool, threw>>
    /\ UNCHANGED <<chunkVars, ingestVars>>

\* line 15: the primary generateText call starts
PrimaryStart ==
    /\ pc = "start"
    /\ body.parsed
    /\ Truthy(body.prompt)
    /\ calls' = Bump(calls, "primary")
    /\ pc' = "reasoning"
    /\ UNCHANGED <<body, indexResp, sdkShape, steps, stepText, curParts, pending,
                   resultText, rawToolOutput, finalAnswer, fallbackPrompt, summaryText,
                   responses, lastTool, threw>>
    /\ UNCHANGED <<chunkVars, ingestVars>>

\* a step as the SDK records it (the handler reads nothing but step.content)
MkStep(parts) ==
    IF sdkShape = "nocontent"
    THEN [hasContent |-> FALSE, content |-> << >>, toolResults |-> parts]
    ELSE [hasContent |-> TRUE, content |-> parts, toolResults |-> parts]

\* a tool-result part carrying what execute returned
MkPart(info) ==
    IF sdkShape = "output"
    THEN [type |-> "tool-result", result |-> undefined, output |-> info]
    ELSE [type |-> "tool-result", result |-> info, output |-> undefined]

\* LoopContinues with the bound off by one
LoopContinuesOffByOne(nSteps) == nSteps <= maxSteps

\* whether the loop of generateText goes on after a round that called tools
LoopContinues(nSteps) == nSteps < maxSteps

\* one model round of the primary call: text and/or tool calls
ModelRound ==
    /\ pc = "reasoning"
    /\ \E out \in ModelTexts, n \in 0..MaxCallsPerStep :
        /\ calls' = Bump(calls, "rounds")
        /\ IF n = 0
           THEN /\ steps' = Append(steps, MkStep(<< >>))
                /\ resultText' = out
                /\ pc' = "extract"
                /\ UNCHANGED <<stepText, pending>>
           ELSE /\ stepText' = out
                /\ pending' = n
                /\ pc' = "tool"
                /\ UNCHANGED <<steps, resultText>>
    /\ UNCHANGED <<body, indexResp, sdkShape, curParts, rawToolOutput, finalAnswer,
                   fallbackPrompt, summaryText, responses, lastTool, threw>>
    /\ UNCHANGED <<chunkVars, ingestVars>>

\* the language model call of a round fails
ModelThrows ==
    /\ pc = "reasoning"
    /\ calls' = Bump(calls, "rounds")
    /\ threw' = "primary"
    /\ pc' = "catch"
    /\ UNCHANGED <<body, indexResp, sdkShape, steps, stepText, curParts, pending,
                   resultText, rawToolOutput, finalAnswer, fallbackPrompt, summaryText,
                   responses, lastTool>>
    /\ UNCHANGED <<chunkVars, ingestVars>>

\* SearchQuery without the fallback to the prompt
SearchQueryNoFallback(args) == args

\* line 32: args.query || prompt
SearchQuery(args) == Or(args, body.prompt)

\* lines 30-35 with ragService.js 11-14: embed() rejects
ToolEmbedThrows ==
    /\ pc = "tool"
    /\ pending > 0
    /\ \E args \in QueryArgs :
        lastTool' = [args |-> args, searchQuery |-> SearchQuery(args), outcome |-> "embed",
                     info |-> undefined]
    /\ calls' = Bump(Bump(calls, "retrieve"), "embed")
    /\ threw' = "embed"
    /\ pc' = "catch"
    /\ UNCHANGED <<body, indexResp, sdkShape, steps, stepText, curParts, pending,
                   resultText, rawToolOutput, finalAnswer, fallbackPrompt, summaryText, responses>>
    /\ UNCHANGED <<chunkVars, ingestVars>>

\* lines 30-35 with ragService.js 17-21: the index query rejects
ToolQueryThrows ==
    /\ pc = "tool"
    /\ pending > 0
    /\ \E args \in QueryArgs :
        lastTool' = [args |-> args, searchQuery |-> SearchQuery(args), outcome |-> "query",
                     info |-> undefined]
    /\ calls' = Bump(Bump(Bump(calls, "retrieve"), "embed"), "query")
    /\ threw' = "query"
    /\ pc' = "catch"
    /\ UNCHANGED <<body, indexResp, sdkShape, steps, stepText, curParts, pending,
                   resultText, rawToolOutput, finalAnswer, fallbackPrompt, summaryText, responses>>
    /\ UNCHANGED <<chunkVars, ingestVars>>

\* lines 30-35 with ragService.js 9-37: the tool returns a string
ToolOk ==
    /\ pc = "tool"
    /\ pending > 0
    /\ \E args \in QueryArgs :
        lastTool' = [args |-> args, searchQuery |-> SearchQuery(args), outcome |-> "ok",
                     info |-> FormatContext(indexResp)]
    /\ calls' = Bump(Bump(Bump(calls, "retrieve"), "embed"), "query")
    /\ pending' = pending - 1
    /\ LET parts == Append(curParts, MkPart(lastTool'.info))
       IN  IF pending > 1
           THEN /\ curParts' = parts
                /\ UNCHANGED <<steps, resultText, pc>>
           ELSE /\ curParts' = << >>
                /\ steps' = Append(steps, MkStep(parts))
                /\ IF LoopContinues(Len(steps) + 1)
                   THEN /\ pc' = "reasoning"
                        /\ UNCHANGED resultText
                   ELSE /\ pc' = "extract"
                        /\ resultText' = stepText
    /\ UNCHANGED <<body, indexResp, sdkShape, stepText, rawToolOutput, finalAnswer,
                   fallbackPrompt, summaryText, responses, threw>>
    /\ UNCHANGED <<chunkVars, ingestVars>>

\* lines 53-57: the payloads of one step's tool-result parts
RECURSIVE PartsOutput(_)
PartsOutput(content) ==
    IF content = << >> THEN << >>
    ELSE (IF Head(content).type = "tool-result"
          THEN JsString(Or(Head(content).result, Head(content).output)) \o <<"\n">>
          ELSE << >>)
         \o PartsOutput(Tail(content))

\* lines 49-59: rawToolOutput over the whole transcript
RECURSIVE RawToolOutput(_)
RawToolOutput(ss) ==
    IF ss = << >> THEN << >>
    ELSE (IF Head(ss).hasContent THEN PartsOutput(Head(ss).content) ELSE << >>)
         \o RawToolOutput(Tail(ss))

\* NeedsFallback without the `if (rawToolOutput)` test
NeedsFallbackAlways(raw) == TRUE

\* line 62: whether the second model call is made
NeedsFallback(raw) == Truthy(raw)

\* lines 42-62: up to the second generateText call
Extract ==
    /\ pc = "extract"
    /\ finalAnswer' = resultText
    /\ IF ~Truthy(resultText)
       THEN /\ rawToolOutput' = RawToolOutput(steps)
            /\ pc' = IF NeedsFallback(rawToolOutput') THEN "fallback" ELSE "respond"
       ELSE /\ pc' = "respond"
            /\ UNCHANGED rawToolOutput
    /\ UNCHANGED <<body, indexResp, sdkShape, steps, stepText, curParts, pending,
                   resultText, fallbackPrompt, summaryText, responses, calls, lastTool, threw>>
    /\ UNCHANGED <<chunkVars, ingestVars>>

\* line 68
FallbackPromptOf(prompt, raw) ==
    <<"User Question: ">> \o JsString(prompt) \o <<"\n\n<Context>\n">>
        \o JsString(raw) \o <<"\n</Context>">>

\* lines 64-70: the second generateText call returns
FallbackOk ==
    /\ pc = "fallback"
    /\ calls' = Bump(calls, "fallback")
    /\ fallbackPrompt' = FallbackPromptOf(body.prompt, rawToolOutput)
    /\ \E out \in FallbackTexts : summaryText' = out
    /\ finalAnswer' = summaryText'
    /\ pc' = "respond"
    /\ UNCHANGED <<body, indexResp, sdkShape, steps, stepText, curParts, pending,
                   resultText, rawToolOutput, responses, lastTool, threw>>
    /\ UNCHANGED <<chunkVars, ingestVars>>

\* lines 64-69: the second generateText call rejects
FallbackThrows ==
    /\ pc = "fallback"
    /\ calls' = Bump(calls, "fallback")
    /\ fallbackPrompt' = FallbackPromptOf(body.prompt, rawToolOutput)
    /\ threw' = "fallback"
    /\ pc' = "catch"
    /\ UNCHANGED <<body, indexResp, sdkShape, steps, stepText, curParts, pending,
                   resultText, rawToolOutput, finalAnswer, summaryText, responses,
                   lastTool>>
    /\ UNCHANGED <<chunkVars, ingestVars>>

\* SafetyNet left out
SafetyNetMissing(answer) == answer

\* lines 75-78
SafetyNet(answer) ==
    IF ~Truthy(answer) \/ answer = <<"undefined">> THEN Apology ELSE answer

\* lines 74-84
Respond ==
    /\ pc = "respond"
    /\ finalAnswer' = SafetyNet(finalAnswer)
    /\ responses' = Append(responses,
                           [status |-> 200, question |-> body.prompt,
                            answer |-> finalAnswer'])
    /\ pc' = "done"
    /\ UNCHANGED <<body, indexResp, sdkShape, steps, stepText, curParts, pending,
                   resultText, rawToolOutput, fallbackPrompt, summaryText, calls, lastTool, threw>>
    /\ UNCHANGED <<chunkVars, ingestVars>>

\* Catch answering with the apology instead of an error
CatchSendsApology ==
    /\ pc = "catch"
    /\ responses' = Append(responses,
                           [status |-> 200, question |-> body.prompt,
                            answer |-> Apology])
    /\ pc' = "done"
    /\ UNCHANGED <<body, indexResp, sdkShape, steps, stepText, curParts, pending,
                   resultText, rawToolOutput, finalAnswer, fallbackPrompt, summaryText,
                   calls, lastTool, threw>>
    /\ UNCHANGED <<chunkVars, ingestVars>>

\* lines 85-88
Catch ==
    /\ pc = "catch"
    /\ responses' = Append(responses,
                           [status |-> 500, error |-> <<"Internal Server Error">>])
    /\ pc' = "done"
    /\ UNCHANGED <<body, indexResp, sdkShape, steps, stepText, curParts, pending,
                   resultText, rawToolOutput, finalAnswer, fallbackPrompt, summaryText,
                   calls, lastTool, threw>>
    /\ UNCHANGED <<chunkVars, ingestVars>>

ChatNext ==
    \/ BodyTypeError
    \/ Validate400
    \/ PrimaryStart
    \/ ModelRound
    \/ ModelThrows
    \/ ToolEmbedThrows
    \/ ToolQueryThrows
    \/ ToolOk
    \/ Extract
    \/ FallbackOk
    \/ FallbackThrows
    \/ Respond
    \/ Catch

Spec == ChatInit /\ [][ChatNext]_vars

----------------------------------------------------------------------------
\* chunkText (ingest.js)

\* no chat request is under way
ChatIdle ==
    /\ body = [parsed |-> FALSE, prompt |-> undefined]
    /\ indexResp = [hasMatches |-> FALSE, matches |-> << >>]
    /\ sdkShape = "result"
    /\ pc = "idle"
    /\ steps = << >>
    /\ stepText = << >>
    /\ curParts = << >>
    /\ pending = 0
    /\ resultText = << >>
    /\ rawToolOutput = << >>
    /\ finalAnswer = undefined
    /\ fallbackPrompt = undefined
    /\ summaryText = undefined
    /\ responses = << >>
    /\ calls = NoCalls
    /\ lastTool = NoTool
    /\ threw = "none"

\* distance past the nominal end within which a boundary moves the cut
Lookahead == 50

\* chunks of at most this length are filtered out
MinChunkLength == 10

Min(a, b) == IF a < b THEN a ELSE b
Max(a, b) == IF a > b THEN a ELSE b

NL == "\n"
\* the ideographic full stop U+3002 that line 28 looks for
Period == "u3002"

\* the characters String.prototype.trim removes
Whitespace == { " ", NL }

\* String.prototype.indexOf(ch, from): positions are 0-based, -1 when absent
IndexOf(str, ch, from) ==
    LET first == Min(Max(from, 0), Len(str))
        hits == { i \in first..(Len(str) - 1) : str[i + 1] = ch }
    IN  IF hits = {} THEN -1
        ELSE CHOOSE i \in hits : \A j \in hits : i <= j

\* String.prototype.slice(from, to): a negative index counts from the end
Slice(str, from, to) ==
    LET len == Len(str)
        f == IF from < 0 THEN Max(len + from, 0) ELSE Min(from, len)
        t == IF to < 0 THEN Max(len + to, 0) ELSE Min(to, len)
    IN  IF f >= t THEN << >> ELSE SubSeq(str, f + 1, t)

\* String.prototype.trim
RECURSIVE TrimStart(_)
TrimStart(str) ==
    IF str # << >> /\ Head(str) \in Whitespace THEN TrimStart(Tail(str)) ELSE str

RECURSIVE TrimEnd(_)
TrimEnd(str) ==
    IF str # << >> /\ str[Len(str)] \in Whitespace
    THEN TrimEnd(SubSeq(str, 1, Len(str) - 1))
    ELSE str

Trim(str) == TrimEnd(TrimStart(str))

\* lines 23-35: where the window opened at `start` is cut
EndIndex(str, start, size) ==
    LET nominal == start + size
        nextNewline == IndexOf(str, NL, nominal)
        nextPeriod == IndexOf(str, Period, nominal)
    IN  IF nominal < Len(str)
        THEN IF nextNewline # -1 /\ nextNewline - nominal < Lookahead
             THEN nextNewline
             ELSE IF nextPeriod # -1 /\ nextPeriod - nominal < Lookahead
                  THEN nextPeriod + 1
                  ELSE nominal
        ELSE nominal

\* line 37: the chunk pushed for the window [start, end)
ChunkOf(str, start, end) == Trim(Slice(str, start, end))

\* GuardHolds comparing against the chunk length alone
GuardHoldsOnChunkLength(next, lastLen, size) == next <= lastLen

\* line 42: the test of the "Prevent infinite loop" branch
GuardHolds(next, lastLen, size) == next <= lastLen - size

\* NextStart measuring the window by the length of the pushed chunk
NextStartFromChunkLength(start, end, lastLen, size, over) ==
    start + lastLen - over

\* lines 40-44: startIndex of the next window
NextStart(start, end, lastLen, size, over) ==
    LET next == end - over
    IN  IF GuardHolds(next, lastLen, size) THEN next + over ELSE next

\* FilterShort keeping the chunks of exactly the threshold length
RECURSIVE FilterShortInclusive(_)
FilterShortInclusive(cs) ==
    IF cs = << >> THEN << >>
    ELSE (IF Len(Head(cs)) >= MinChunkLength THEN <<Head(cs)>> ELSE << >>)
         \o FilterShortInclusive(Tail(cs))

\* line 46
RECURSIVE FilterShort(_)
FilterShort(cs) ==
    IF cs = << >> THEN << >>
    ELSE (IF Len(Head(cs)) > MinChunkLength THEN <<Head(cs)>> ELSE << >>)
         \o FilterShort(Tail(cs))

\* longest short text, largest chunkSize and largest overlap tried
MaxTextLen == 4
MaxChunkSize == 3
MaxOverlap == 4

Alphabet == { "a", " ", NL, Period }

Rep(ch, n) == [i \in 1..n |-> ch]

ShortTexts == UNION { [1..n -> Alphabet] : n \in 0..MaxTextLen }

\* texts with one boundary character just inside or just outside the lookahead
LongTexts ==
    { Rep("a", n) \o <<ch>> \o Rep("a", m) :
        n \in { Lookahead, Lookahead + 1 },
        ch \in { NL, Period },
        m \in { 0, MinChunkLength + 1 } }

ChunkInputs ==
    { [text |-> t, chunkSize |-> c, overlap |-> o] :
        t \in ShortTexts \cup LongTexts, c \in 1..MaxChunkSize, o \in 0..MaxOverlap }
    \cup
    { [text |-> t, chunkSize |-> MinChunkLength + 1, overlap |-> o] :
        t \in LongTexts, o \in { 0, 1, MinChunkLength, MinChunkLength + 1 } }

Range(q) == { q[i] : i \in 1..Len(q) }

ChunkInit ==
    /\ ChatIdle
    /\ IngestIdle
    /\ \E in \in ChunkInputs :
        /\ text = in.text
        /\ chunkSize = in.chunkSize
        /\ overlap = in.overlap
    /\ startIndex = 0
    /\ chunks = << >>
    /\ cpc = "loop"
    /\ starts = << >>
    /\ cuts = << >>
    /\ guardTaken = << >>
    /\ returned = << >>

\* lines 20-44: one iteration of the while loop.  The body reads nothing but
\* startIndex and the arguments, so a startIndex seen before repeats for ever:
\* the loop never ends, and cpc records it.
ChunkIterate ==
    /\ cpc = "loop"
    /\ startIndex < Len(text)
    /\ LET endIndex == EndIndex(text, startIndex, chunkSize)
           chunk == ChunkOf(text, startIndex, endIndex)
       IN  /\ chunks' = Append(chunks, chunk)
           /\ starts' = Append(starts, startIndex)
           /\ cuts' = Append(cuts, endIndex)
           /\ guardTaken' = Append(guardTaken,
                                   GuardHolds(endIndex - overlap, Len(chunk), chunkSize))
           /\ startIndex' = NextStart(startIndex, endIndex, Len(chunk), chunkSize, overlap)
           /\ cpc' = IF startIndex' \in Range(starts') THEN "diverged" ELSE "loop"
    /\ UNCHANGED <<text, chunkSize, overlap, returned>>
    /\ UNCHANGED <<chatVars, ingestVars>>

\* lines 20 and 46: the loop ends and the chunks are filtered
ChunkReturn ==
    /\ cpc = "loop"
    /\ startIndex >= Len(text)
    /\ returned' = FilterShort(chunks)
    /\ cpc' = "done"
    /\ UNCHANGED <<text, chunkSize, overlap, startIndex, chunks, starts, cuts, guardTaken>>
    /\ UNCHANGED <<chatVars, ingestVars>>

ChunkNext ==
    \/ ChunkIterate
    \/ ChunkReturn

ChunkSpec == ChunkInit /\ [][ChunkNext]_vars

\* chunkText as main calls it
RECURSIVE ChunkLoop(_, _, _, _, _)
ChunkLoop(str, size, over, start, acc) ==
    IF start < Len(str)
    THEN LET endIndex == EndIndex(str, start, size)
             chunk == ChunkOf(str, start, endIndex)
         IN  ChunkLoop(str, size, over,
                       NextStart(start, endIndex, Len(chunk), size, over),
                       Append(acc, chunk))
    ELSE FilterShort(acc)

chunkText(str, size, over) == ChunkLoop(str, size, over, 0, << >>)

----------------------------------------------------------------------------
\* main (ingest.js)

CHUNK_SIZE == 500
CHUNK_OVERLAP == 100

\* most runs of the script in one behaviour
MaxRuns == 2

\* String(n) for a natural number
RECURSIVE Decimal(_)
Decimal(n) ==
    LET digit == <<"0", "1", "2", "3", "4", "5", "6", "7", "8", "9">>[(n % 10) + 1]
    IN  IF n < 10 THEN <<digit>> ELSE Append(Decimal(n \div 10), digit)

\* a record id where the run number takes the place of the file name
RecordIdByRun(source, chunkIndex) ==
    Decimal(runs) \o <<"-chunk-">> \o Decimal(chunkIndex)

\* line 106: `${chunkInfo.source}-chunk-${chunkInfo.chunkIndex}`
RecordId(source, chunkIndex) ==
    source \o <<"-chunk-">> \o Decimal(chunkIndex)

\* file names, as base and extension
FileNames == { <<"a", ".md">>, <<"b", ".txt">>, <<"c", ".png">> }

\* line 60: f.endsWith('.md') || f.endsWith('.txt')
IsDocument(name) == name[Len(name)] = ".md" \/ name[Len(name)] = ".txt"

\* fs.readdirSync lists the names in order
NameOrder(name) ==
    CASE name = <<"a", ".md">> -> 1
      [] name = <<"b", ".txt">> -> 2
      [] name = <<"c", ".png">> -> 3

RECURSIVE Sorted(_)
Sorted(names) ==
    IF names = {} THEN << >>
    ELSE LET first == CHOOSE n \in names : \A m \in names : NameOrder(n) <= NameOrder(m)
         IN  <<first>> \o Sorted(names \ {first})

\* file contents: too short for a chunk, one chunk, two chunks
DocShort == Rep("a", MinChunkLength)
DocOne == Rep("b", MinChunkLength + 1)
DocTwo == Rep("c", CHUNK_SIZE) \o Rep("d", CHUNK_OVERLAP)

\* what a file of each name may hold
ContentsOf(name) ==
    IF name = <<"a", ".md">> THEN {DocShort, DocOne, DocTwo} ELSE {DocOne}

\* the states of the docs directory
Corpora ==
    { [exists |-> FALSE, files |-> Empty] }
    \cup
    { [exists |-> TRUE, files |-> f] :
        f \in UNION { { g \in [names -> {DocShort, DocOne, DocTwo}] :
                          \A n \in names : g[n] \in ContentsOf(n) } :
                      names \in SUBSET FileNames } }

\* the vector the embedding model gives a text (deterministic, by 4.2)
Embedding(t) == [embeddingOf |-> t]

\* lines 69-84: the chunks of the listed files, in order
RECURSIVE ChunksOfFiles(_, _)
ChunksOfFiles(files, contents) ==
    IF files = << >> THEN << >>
    ELSE LET file == Head(files)
             cs == chunkText(contents[file], CHUNK_SIZE, CHUNK_OVERLAP)
         IN  [i \in 1..Len(cs) |-> [text |-> cs[i], source |-> file, chunkIndex |-> i - 1]]
             \o ChunksOfFiles(Tail(files), contents)

\* lines 105-112
Vectors(cs, es) ==
    [i \in 1..Len(cs) |->
        [id |-> RecordId(cs[i].source, cs[i].chunkIndex),
         values |-> es[i],
         metadata |-> [text |-> cs[i].text, source |-> cs[i].source]]]

\* index.upsert: a record replaces the one of the same id
Upsert(idx, records) ==
    LET ids == { records[i].id : i \in 1..Len(records) }
        \* the last record of an id wins
        rec(id) == LET i == CHOOSE k \in 1..Len(records) :
                               /\ records[k].id = id
                               /\ \A j \in (k + 1)..Len(records) : records[j].id # id
                   IN  [values |-> records[i].values, metadata |-> records[i].metadata]
    IN  [id \in DOMAIN idx \cup ids |-> IF id \in ids THEN rec(id) ELSE idx[id]]

IngestInit ==
    /\ ChatIdle
    /\ ChunkIdle
    /\ docs \in Corpora
    /\ index = Empty
    /\ mpc = "idle"
    /\ allChunks = << >>
    /\ embeddings = << >>
    /\ log = << >>
    /\ outcome = "none"
    /\ upsertCalls = 0
    /\ runs = 0
    /\ atStart = [index |-> Empty, upsertCalls |-> 0]
    /\ hist = [okRuns |-> 0, docs |-> [exists |-> FALSE, files |-> Empty],
               before |-> Empty, repeated |-> FALSE]

\* between two runs documents are added, removed or rewritten
EditDocs ==
    /\ mpc = "idle"
    /\ runs < MaxRuns
    /\ \E d \in Corpora : d # docs /\ docs' = d
    /\ UNCHANGED <<index, mpc, allChunks, embeddings, log, outcome, upsertCalls, runs,
                   atStart, hist>>
    /\ UNCHANGED <<chatVars, chunkVars>>

\* lines 52-58: the docs folder is missing
MainNoFolder ==
    /\ mpc = "idle"
    /\ runs < MaxRuns
    /\ ~docs.exists
    /\ runs' = runs + 1
    /\ atStart' = [index |-> index, upsertCalls |-> upsertCalls]
    /\ log' = <<"Cannot find the docs folder.">>
    /\ outcome' = "nofolder"
    /\ UNCHANGED <<docs, index, mpc, allChunks, embeddings, upsertCalls, hist>>
    /\ UNCHANGED <<chatVars, chunkVars>>

\* line 60
DocumentFiles == Sorted({ n \in DOMAIN docs.files : IsDocument(n) })

\* lines 60-64: no .md or .txt file
MainNoFiles ==
    /\ mpc = "idle"
    /\ runs < MaxRuns
    /\ docs.exists
    /\ DocumentFiles = << >>
    /\ runs' = runs + 1
    /\ atStart' = [index |-> index, upsertCalls |-> upsertCalls]
    /\ log' = << >>
    /\ outcome' = "nofiles"
    /\ UNCHANGED <<docs, index, mpc, allChunks, embeddings, upsertCalls, hist>>
    /\ UNCHANGED <<chatVars, chunkVars>>

\* lines 66-90: the files are read and chunked, embedMany is called
MainChunk ==
    /\ mpc = "idle"
    /\ runs < MaxRuns
    /\ docs.exists
    /\ DocumentFiles # << >>
    /\ runs' = runs + 1
    /\ atStart' = [index |-> index, upsertCalls |-> upsertCalls]
    /\ allChunks' = ChunksOfFiles(DocumentFiles, docs.files)
    /\ embeddings' = << >>
    /\ log' = << >>
    /\ outcome' = "running"
    /\ mpc' = "embed"
    /\ UNCHANGED <<docs, index, upsertCalls, hist>>
    /\ UNCHANGED <<chatVars, chunkVars>>

\* lines 95-117: embedMany returned, the vectors are assembled, upsert is called
EmbedOk ==
    /\ mpc = "embed"
    /\ embeddings' = [i \in 1..Len(allChunks) |-> Embedding(allChunks[i].text)]
    /\ upsertCalls' = upsertCalls + 1
    /\ mpc' = "upsert"
    /\ UNCHANGED <<docs, index, allChunks, log, outcome, runs, atStart, hist>>
    /\ UNCHANGED <<chatVars, chunkVars>>

\* EmbedFails going on to upsert what it has
EmbedFailsThenUpserts ==
    /\ mpc = "embed"
    /\ log' = <<"An error occurred:", "embedMany">>
    /\ outcome' = "embedError"
    /\ embeddings' = [i \in 1..Len(allChunks) |-> undefined]
    /\ upsertCalls' = upsertCalls + 1
    /\ mpc' = "upsert"
    /\ UNCHANGED <<docs, index, allChunks, runs, atStart, hist>>
    /\ UNCHANGED <<chatVars, chunkVars>>

\* lines 95-98 and 122-124: embedMany rejects
EmbedFails ==
    /\ mpc = "embed"
    /\ log' = <<"An error occurred:", "embedMany">>
    /\ outcome' = "embedError"
    /\ mpc' = "idle"
    /\ UNCHANGED <<docs, index, allChunks, embeddings, upsertCalls, runs, atStart, hist>>
    /\ UNCHANGED <<chatVars, chunkVars>>

\* lines 114-121: the upsert succeeded
UpsertOk ==
    /\ mpc = "upsert"
    /\ index' = Upsert(index, Vectors(allChunks, embeddings))
    /\ hist' = [okRuns |-> hist.okRuns + 1,
                docs |-> docs,
                before |-> index,
                repeated |-> hist.okRuns > 0 /\ hist.docs = docs]
    /\ outcome' = "ok"
    /\ mpc' = "idle"
    /\ UNCHANGED <<docs, allChunks, embeddings, log, upsertCalls, runs, atStart>>
    /\ UNCHANGED <<chatVars, chunkVars>>

\* lines 114-117 and 122-124: the upsert rejects
UpsertFails ==
    /\ mpc = "upsert"
    /\ log' = <<"An error occurred:", "upsert">>
    /\ outcome' = "upsertError"
    /\ mpc' = "idle"
    /\ UNCHANGED <<docs, index, allChunks, embeddings, upsertCalls, runs, atStart, hist>>
    /\ UNCHANGED <<chatVars, chunkVars>>

IngestNext ==
    \/ EditDocs
    \/ MainNoFolder
    \/ MainNoFiles
    \/ MainChunk
    \/ EmbedOk
    \/ EmbedFails
    \/ UpsertOk
    \/ UpsertFails

IngestSpec == IngestInit /\ [][IngestNext]_vars

----------------------------------------------------------------------------
\* Properties of chatWithAgent and retrieveKnowledge

Validated == body.parsed /\ Truthy(body.prompt)

Ok200(answer) == [status |-> 200, question |-> body.prompt, answer |-> answer]
Err400 == [status |-> 400, error |-> <<"Prompt is required">>]
Err500 == [status |-> 500, error |-> <<"Internal Server Error">>]

\* some step's content holds a tool-result part
HasToolResult ==
    \E i \in 1..Len(steps) :
        /\ steps[i].hasContent
        /\ \E j \in 1..Len(steps[i].content) : steps[i].content[j].type = "tool-result"

\* n copies of the string s
RECURSIVE Repeat(_, _)
Repeat(s, n) == IF n = 0 THEN << >> ELSE s \o Repeat(s, n - 1)

\* C1: a validated request during which no collaborator call throws ends with
\* exactly one response, a 200 whose `question` is the prompt and whose
\* `answer` is a non-empty string, whatever the model returned.
C1_ValidatedRequestAnswered ==
    (pc = "done" /\ Validated /\ threw = "none") =>
        /\ Len(responses) = 1
        /\ responses[1] = Ok200(finalAnswer)
        /\ finalAnswer # undefined
        /\ Len(finalAnswer) > 0

\* the fallback returned the literal 'undefined' and the request was answered
C1_Witness ==
    /\ pc = "done" /\ Validated /\ threw = "none"
    /\ calls.fallback = 1
    /\ summaryText = <<"undefined">>
    /\ responses = <<Ok200(Apology)>>

C4_MissingPromptRejected ==
    (pc = "done" /\ ~Validated) =>
        /\ responses = <<Err400>>
        /\ calls = NoCalls

\* C5: when an upstream call of a validated request throws, no 200 is ever
\* sent, the one response is the 500, and no collaborator is called again.
C5_UpstreamFailureIs500 ==
    /\ [](threw \in {"embed", "query", "primary", "fallback"} =>
            /\ \A i \in 1..Len(responses) : responses[i] = Err500
            /\ Len(responses) <= 1
            /\ pc = "done" => responses = <<Err500>>)
    /\ [][threw # "none" => calls' = calls]_vars

\* the index query threw during a tool invocation and the 500 was sent
C5_Witness ==
    /\ pc = "done" /\ Validated
    /\ threw = "query"
    /\ lastTool.outcome = "query"
    /\ responses = <<Err500>>

\* the tool-result parts recorded so far, oldest first
RECURSIVE PartsOf(_)
PartsOf(ss) == IF ss = << >> THEN << >> ELSE Head(ss).toolResults \o PartsOf(Tail(ss))

AllParts == PartsOf(steps) \o curParts

ZeroMatches(resp) == ~resp.hasMatches \/ resp.matches = << >>

\* C10: on zero matches retrieveKnowledge returns the sentinel, which enters
\* the transcript as a tool result; a 500 is sent only after a call threw.
C10_ZeroMatchesSentinel ==
    /\ (lastTool.outcome = "ok" /\ ZeroMatches(indexResp)) =>
            /\ lastTool.info = Sentinel
            /\ Len(AllParts) = calls.retrieve - (IF threw \in {"embed", "query"} THEN 1 ELSE 0)
            /\ \A i \in 1..Len(AllParts) :
                    /\ AllParts[i].type = "tool-result"
                    /\ Or(AllParts[i].result, AllParts[i].output) = Sentinel
    /\ \A i \in 1..Len(responses) :
            responses[i].status = 500 => threw # "none"

\* a request whose retrieval found nothing was answered 200
C10_Witness ==
    /\ pc = "done"
    /\ ZeroMatches(indexResp)
    /\ indexResp.hasMatches
    /\ calls.retrieve > 0
    /\ lastTool.outcome = "ok"
    /\ responses[1].status = 200

----------------------------------------------------------------------------
\* Properties of chunkText

ValidOverlap == 0 <= overlap /\ overlap < chunkSize

StrictlyIncreasing(q) == \A i \in 1..(Len(q) - 1) : q[i] < q[i + 1]

\* C6: for 0 <= overlap < chunkSize and a non-empty text the values startIndex
\* takes at successive iterations strictly increase, whatever the boundary
\* adjustment and the trimming did, and the call terminates: startIndex never
\* repeats and the loop makes at most text.length iterations.
C6_StartsIncreaseAndTerminates ==
    (ValidOverlap /\ text # << >>) =>
        /\ cpc \in {"loop", "done"}
        /\ StrictlyIncreasing(Append(starts, startIndex))
        /\ Len(starts) <= Len(text)

\* a call that returned after a window was cut at a boundary and a chunk was trimmed
C6_Witness ==
    /\ cpc = "done"
    /\ ValidOverlap
    /\ Len(starts) >= 2
    /\ \E i \in 1..Len(starts) : cuts[i] # starts[i] + chunkSize
    /\ \E i \in 1..Len(starts) :
            Len(chunks[i]) < Min(cuts[i], Len(text)) - starts[i]

\* C7: with overlap >= chunkSize the call is rejected or the overlap clamped,
\* so that startIndex never repeats and the call still terminates.
C7_LargeOverlapTerminates ==
    (overlap >= chunkSize /\ text # << >>) => cpc # "diverged"

----------------------------------------------------------------------------
\* Properties of main

\* C8: a successful run over the corpus the previous successful run ingested
\* leaves the namespace with the records it had: same ids, no duplicate, no
\* new id.
C8_ReingestionIdempotent ==
    hist.repeated =>
        /\ index = hist.before
        /\ DOMAIN index = DOMAIN hist.before

\* an unchanged corpus of several chunks was ingested a second time
C8_Witness ==
    /\ hist.repeated
    /\ outcome = "ok"
    /\ hist.okRuns >= 2
    /\ Len(allChunks) >= 2
    /\ Cardinality(DOMAIN index) >= 2

\* C9: a run whose embedMany call failed issued no upsert, left the index as
\* it was when the run started, and ended by reporting the error.
C9_EmbedFailureAborts ==
    outcome = "embedError" =>
        /\ upsertCalls = atStart.upsertCalls
        /\ index = atStart.index
        /\ log = <<"An error occurred:", "embedMany">>
        /\ mpc = "idle"

\* embedMany failed in a run over a non-empty corpus, after an earlier run had
\* filled the index
C9_Witness ==
    /\ outcome = "embedError"
    /\ allChunks # << >>
    /\ index # Empty
    /\ index = atStart.index

----------------------------------------------------------------------------
\* Properties of the retrieval context and of the tool's query

\* the block the claim prescribes for a match
LabelledBlock(match) ==
    <<"[source: ">>
        \o (IF match.metadata.source = undefined
            THEN <<"unknown document">> ELSE match.metadata.source)
        \o <<"]\n">> \o match.metadata.text

\* C11: for a non-empty list of matches retrieveKnowledge returns one block
\* per match, at most 2, in the index's order, each `[source: <s>]\n<text>`
\* with 'unknown document' for a missing source, separated by '\n\n---\n\n'.
C11_OneLabelledBlockPerMatch ==
    (lastTool.outcome = "ok" /\ ~ZeroMatches(indexResp)) =>
        LET m == indexResp.matches
        IN  /\ Len(m) <= 2
            /\ lastTool.info =
                 IF Len(m) = 1 THEN LabelledBlock(m[1])
                 ELSE LabelledBlock(m[1]) \o <<"\n\n---\n\n">> \o LabelledBlock(m[2])

\* two matches were formatted, the first of them without a source
C11_Witness ==
    /\ lastTool.outcome = "ok"
    /\ Len(indexResp.matches) = 2
    /\ indexResp.matches[1].metadata.source = undefined
    /\ lastTool.info =
         <<"[source: ", "unknown document", "]\n", "t2", "\n\n---\n\n",
           "[source: ", "a.md", "]\n", "t1">>

\* C16: every tool invocation calls retrieveKnowledge with the query the model
\* supplied, or with the request's prompt when the model supplied none (absent
\* or empty); for a validated request the query is never empty or undefined.
C16_QueryOrPrompt ==
    lastTool.outcome # "none" =>
        /\ Validated
        /\ lastTool.searchQuery =
             IF lastTool.args = undefined \/ lastTool.args = << >>
             THEN body.prompt ELSE lastTool.args
        /\ lastTool.searchQuery # undefined
        /\ lastTool.searchQuery # << >>

\* the model called the tool with an empty query and the prompt was searched
C16_Witness ==
    /\ lastTool.outcome = "ok"
    /\ lastTool.args = << >>
    /\ lastTool.searchQuery = Prompt
    /\ calls.retrieve >= 2

----------------------------------------------------------------------------
\* Further properties of chunkText

\* C12: every chunk chunkText returns is trimmed and longer than the
\* threshold of 10 characters; an empty text yields no chunk.
C12_ReturnedChunksLong ==
    cpc = "done" =>
        /\ \A i \in 1..Len(returned) :
              /\ Len(returned[i]) > 10
              /\ Trim(returned[i]) = returned[i]
        /\ text = << >> => returned = << >>

\* a call returned some chunks and dropped a shorter one
C12_Witness ==
    /\ cpc = "done"
    /\ returned # << >>
    /\ Len(returned) < Len(chunks)
    /\ \E i \in 1..Len(chunks) : Len(chunks[i]) > 0 /\ Len(chunks[i]) <= 10

\* C17: for 0 <= overlap < chunkSize the "Prevent infinite loop" branch of
\* line 42 is taken at no iteration, and the next startIndex is always
\* endIndex - overlap.
C17_GuardNeverTaken ==
    ValidOverlap =>
        \A i \in 1..Len(starts) :
            LET next == IF i < Len(starts) THEN starts[i + 1] ELSE startIndex
            IN  /\ ~guardTaken[i]
                /\ next = cuts[i] - overlap

\* a finished call with a positive valid overlap, several iterations and a
\* window moved forward to a boundary
C17_Witness ==
    /\ cpc = "done"
    /\ ValidOverlap
    /\ overlap > 0
    /\ Len(starts) >= 3
    /\ \E i \in 1..Len(starts) : cuts[i] > starts[i] + chunkSize

\* the boundary nearest to the nominal end among a line break and a sentence
\* terminator found fewer than Lookahead characters past it
NearestBoundaryCut(str, nominal) ==
    LET nextNewline == IndexOf(str, NL, nominal)
        nextPeriod == IndexOf(str, Period, nominal)
        newlineNear == nextNewline # -1 /\ nextNewline - nominal < 50
        periodNear == nextPeriod # -1 /\ nextPeriod - nominal < 50
    IN  IF newlineNear /\ periodNear
        THEN IF nextNewline < nextPeriod THEN nextNewline ELSE nextPeriod + 1
        ELSE IF newlineNear THEN nextNewline
        ELSE IF periodNear THEN nextPeriod + 1
        ELSE nominal

\* C14: a window whose nominal end lies before the end of the text is cut at
\* the nearer of the line break and the sentence terminator found fewer than
\* 50 characters past the nominal end, at the nominal end when there is
\* neither, and no window is longer than chunkSize + 50.
C14_CutAtNearestBoundary ==
    \A i \in 1..Len(starts) :
        /\ starts[i] + chunkSize < Len(text) =>
              cuts[i] = NearestBoundaryCut(text, starts[i] + chunkSize)
        /\ cuts[i] - starts[i] <= chunkSize + 50

\* the source span of the i-th window ends at the cut or at the end of the text
SpanEnd(i) == Min(cuts[i], Len(text))

\* C15: for 0 <= overlap < chunkSize every window after the first starts
\* exactly overlap characters before the end of the previous window's source
\* span, the last pair included.
C15_ConsecutiveSpansShareOverlap ==
    ValidOverlap =>
        \A i \in 2..Len(starts) : starts[i] = SpanEnd(i - 1) - overlap

----------------------------------------------------------------------------
\* Further properties of the ingestion

\* the chunks of the corpus of the latest successful run
LatestChunks ==
    ChunksOfFiles(Sorted({ n \in DOMAIN hist.docs.files : IsDocument(n) }),
                  hist.docs.files)

\* C13: after any sequence of successful runs the ids of the records in the
\* namespace are exactly the ids of the chunks of the corpus ingested last,
\* and each record's metadata text is the text of its chunk.
C13_NamespaceMirrorsLatestCorpus ==
    (hist.okRuns > 0 /\ hist.okRuns = runs /\ mpc = "idle") =>
        /\ DOMAIN index = { RecordId(LatestChunks[i].source, LatestChunks[i].chunkIndex) :
                              i \in 1..Len(LatestChunks) }
        /\ \A i \in 1..Len(LatestChunks) :
              index[RecordId(LatestChunks[i].source, LatestChunks[i].chunkIndex)].metadata.text
                  = LatestChunks[i].text

====
